---- MODULE Spec2Model ----
(***************************************************************************)
(* The ImportC shim source/btdu_ncurses_importc.c as a state machine: one   *)
(* extraction pass is the C preprocessor working through the shim's        *)
(* directives (lines 10-15) and then the compiler declaring the            *)
(* enumerators of the anonymous enum (lines 19-150) one after another.     *)
(* The installed library (which headers the include search path resolves,  *)
(* and the values their macros have) and the macros predefined by the      *)
(* compiler or command line are the pass's inputs, fixed by Init.          *)
(***************************************************************************)
EXTENDS Integers, Sequences, FiniteSets, TLC

(* ------------------------------ bounds --------------------------------- *)

\* Library headers come in variants 0..MaxVariant, each giving its macros
\* other values; variant 0 has the documented values (OK = 0, ERR = -1).
MaxVariant == 1

\* _FORTIFY_SOURCE may be predefined to any of 0..MaxFortify, or not at all.
MaxFortify == 2

\* The extraction pass is run up to MaxRuns times on the same installation.
MaxRuns == 2

(* ---------------------- the preprocessor's macros ---------------------- *)

Undefined == [defined |-> FALSE]

Defined(v) == [defined |-> TRUE, value |-> v]

\* The build-time configuration macros the shim sets (lines 10-14).
ConfigMacros == {"__NO_INLINE__", "_FORTIFY_SOURCE", "_XOPEN_SOURCE_EXTENDED"}

(* ------------------------- the shim's directives ----------------------- *)

DefineDirective(m, v) == [op |-> "define", macro |-> m, value |-> v]

UndefDirective(m) == [op |-> "undef", macro |-> m]

IncludeDirective(h) == [op |-> "include", header |-> h]

\* Mutation: the library header is included before the macros are set.
ShimDirectives_IncludeFirst ==
    << IncludeDirective("ncurses.h"),
       DefineDirective("__NO_INLINE__", 1),
       UndefDirective("_FORTIFY_SOURCE"),
       DefineDirective("_FORTIFY_SOURCE", 0),
       DefineDirective("_XOPEN_SOURCE_EXTENDED", 1) >>

\* Mutation: lines 12-13 are missing, so _FORTIFY_SOURCE is left as it was.
ShimDirectives_NoFortify ==
    << DefineDirective("__NO_INLINE__", 1),
       DefineDirective("_XOPEN_SOURCE_EXTENDED", 1),
       IncludeDirective("ncurses.h") >>

\* Lines 10-15 of the shim, in the order the preprocessor meets them.
ShimDirectives ==
    << DefineDirective("__NO_INLINE__", 1),
       UndefDirective("_FORTIFY_SOURCE"),
       DefineDirective("_FORTIFY_SOURCE", 0),
       DefineDirective("_XOPEN_SOURCE_EXTENDED", 1),
       IncludeDirective("ncurses.h") >>

(* --------------------------- the library ------------------------------- *)

\* The two paths under which the library's header may be installed: the
\* wide-character variant in its conventional subdirectory, and the plain one.
WideHeader == "ncursesw/ncurses.h"

PlainHeader == "ncurses.h"

HeaderPaths == {WideHeader, PlainHeader}

Absent == [present |-> FALSE]

Header(v) == [present |-> TRUE, variant |-> v]

\* The object-like macros of the library header that the shim refers to,
\* and KEY_F0, the base of the function-key numbering.
LibraryMacros ==
    <<
      "A_NORMAL", "A_STANDOUT", "A_UNDERLINE", "A_REVERSE", "A_BLINK",
      "A_DIM", "A_BOLD", "A_ALTCHARSET", "A_INVIS", "A_PROTECT",
      "A_HORIZONTAL", "A_LEFT", "A_LOW", "A_RIGHT", "A_TOP", "A_VERTICAL",
      "A_ITALIC", "OK", "ERR", "CCHARW_MAX", "KEY_DOWN", "KEY_UP",
      "KEY_LEFT", "KEY_RIGHT", "KEY_HOME", "KEY_BACKSPACE", "KEY_DL",
      "KEY_IL", "KEY_DC", "KEY_IC", "KEY_EIC", "KEY_CLEAR", "KEY_EOS",
      "KEY_EOL", "KEY_SF", "KEY_SR", "KEY_NPAGE", "KEY_PPAGE", "KEY_STAB",
      "KEY_CTAB", "KEY_CATAB", "KEY_ENTER", "KEY_PRINT", "KEY_LL", "KEY_A1",
      "KEY_A3", "KEY_B2", "KEY_C1", "KEY_C3", "KEY_BTAB", "KEY_BEG",
      "KEY_CANCEL", "KEY_CLOSE", "KEY_COMMAND", "KEY_COPY", "KEY_CREATE",
      "KEY_END", "KEY_EXIT", "KEY_FIND", "KEY_HELP", "KEY_MARK",
      "KEY_MESSAGE", "KEY_MOVE", "KEY_NEXT", "KEY_OPEN", "KEY_OPTIONS",
      "KEY_PREVIOUS", "KEY_REDO", "KEY_REFERENCE", "KEY_REFRESH",
      "KEY_REPLACE", "KEY_RESTART", "KEY_RESUME", "KEY_SAVE", "KEY_SUSPEND",
      "KEY_UNDO", "KEY_MOUSE", "KEY_SBEG", "KEY_SCANCEL", "KEY_SCOMMAND",
      "KEY_SCOPY", "KEY_SCREATE", "KEY_SDC", "KEY_SDL", "KEY_SELECT",
      "KEY_SEND", "KEY_SEOL", "KEY_SEXIT", "KEY_SFIND", "KEY_SHELP",
      "KEY_SHOME", "KEY_SIC", "KEY_SLEFT", "KEY_SMESSAGE", "KEY_SMOVE",
      "KEY_SNEXT", "KEY_SOPTIONS", "KEY_SPREVIOUS", "KEY_SPRINT",
      "KEY_SREDO", "KEY_SREPLACE", "KEY_SRIGHT", "KEY_SRSUME", "KEY_SSAVE",
      "KEY_SSUSPEND", "KEY_SUNDO", "KEY_F0" >>

LibraryMacroSet == {LibraryMacros[i] : i \in 1..Len(LibraryMacros)}

MacroIndex(m) == CHOOSE i \in 1..Len(LibraryMacros) : LibraryMacros[i] = m

\* The value a header of variant v gives macro m.  Variant 0 carries the
\* documented sentinels OK = 0 and ERR = -1; every other macro has a value
\* of its own that differs from variant to variant.
LibValue(v, m) ==
    CASE m = "OK" -> v
      [] m = "ERR" -> (-1) - v
      [] m = "CCHARW_MAX" -> 5 + v
      [] OTHER -> 256 * (v + 1) + MacroIndex(m)

\* The library's function-like macro KEY_F(n): KEY_F0 plus n.
LibKeyF(v, n) == LibValue(v, "KEY_F0") + n

(* -------------------------- the shim's enum ---------------------------- *)

\* An enumerator NAME = INITIALISER; the initialiser is a library macro,
\* a use of a function-like library macro, or an integer literal.
Enum(n, i) == [name |-> n, init |-> i]

Macro(m) == [kind |-> "macro", macro |-> m]

Call(m, a) == [kind |-> "call", macro |-> m, arg |-> a]

Literal(k) == [kind |-> "literal", value |-> k]

\* Attributes (lines 21-37).
Attributes ==
    << Enum("_NC_A_NORMAL", Macro("A_NORMAL")),
       Enum("_NC_A_STANDOUT", Macro("A_STANDOUT")),
       Enum("_NC_A_UNDERLINE", Macro("A_UNDERLINE")),
       Enum("_NC_A_REVERSE", Macro("A_REVERSE")),
       Enum("_NC_A_BLINK", Macro("A_BLINK")),
       Enum("_NC_A_DIM", Macro("A_DIM")),
       Enum("_NC_A_BOLD", Macro("A_BOLD")),
       Enum("_NC_A_ALTCHARSET", Macro("A_ALTCHARSET")),
       Enum("_NC_A_INVIS", Macro("A_INVIS")),
       Enum("_NC_A_PROTECT", Macro("A_PROTECT")),
       Enum("_NC_A_HORIZONTAL", Macro("A_HORIZONTAL")),
       Enum("_NC_A_LEFT", Macro("A_LEFT")),
       Enum("_NC_A_LOW", Macro("A_LOW")),
       Enum("_NC_A_RIGHT", Macro("A_RIGHT")),
       Enum("_NC_A_TOP", Macro("A_TOP")),
       Enum("_NC_A_VERTICAL", Macro("A_VERTICAL")),
       Enum("_NC_A_ITALIC", Macro("A_ITALIC")) >>

\* Mutation: the two status codes are exchanged.
ReturnCodes_Swapped ==
    << Enum("_NC_OK", Macro("ERR")),
       Enum("_NC_ERR", Macro("OK")) >>

\* Mutation: OK is exported under both names.
ReturnCodes_BothOK ==
    << Enum("_NC_OK", Macro("OK")),
       Enum("_NC_ERR", Macro("OK")) >>

\* Return codes (lines 40-41).
ReturnCodes ==
    << Enum("_NC_OK", Macro("OK")),
       Enum("_NC_ERR", Macro("ERR")) >>

\* Mutation: the limit is written into the shim as a number.
Configuration_Literal ==
    << Enum("_NC_CCHARW_MAX", Literal(5)) >>

\* Configuration (line 44).
Configuration ==
    << Enum("_NC_CCHARW_MAX", Macro("CCHARW_MAX")) >>

\* Key codes, basic navigation (lines 47-103).
NavigationKeys ==
    << Enum("_NC_KEY_DOWN", Macro("KEY_DOWN")),
       Enum("_NC_KEY_UP", Macro("KEY_UP")),
       Enum("_NC_KEY_LEFT", Macro("KEY_LEFT")),
       Enum("_NC_KEY_RIGHT", Macro("KEY_RIGHT")),
       Enum("_NC_KEY_HOME", Macro("KEY_HOME")),
       Enum("_NC_KEY_BACKSPACE", Macro("KEY_BACKSPACE")),
       Enum("_NC_KEY_DL", Macro("KEY_DL")),
       Enum("_NC_KEY_IL", Macro("KEY_IL")),
       Enum("_NC_KEY_DC", Macro("KEY_DC")),
       Enum("_NC_KEY_IC", Macro("KEY_IC")),
       Enum("_NC_KEY_EIC", Macro("KEY_EIC")),
       Enum("_NC_KEY_CLEAR", Macro("KEY_CLEAR")),
       Enum("_NC_KEY_EOS", Macro("KEY_EOS")),
       Enum("_NC_KEY_EOL", Macro("KEY_EOL")),
       Enum("_NC_KEY_SF", Macro("KEY_SF")),
       Enum("_NC_KEY_SR", Macro("KEY_SR")),
       Enum("_NC_KEY_NPAGE", Macro("KEY_NPAGE")),
       Enum("_NC_KEY_PPAGE", Macro("KEY_PPAGE")),
       Enum("_NC_KEY_STAB", Macro("KEY_STAB")),
       Enum("_NC_KEY_CTAB", Macro("KEY_CTAB")),
       Enum("_NC_KEY_CATAB", Macro("KEY_CATAB")),
       Enum("_NC_KEY_ENTER", Macro("KEY_ENTER")),
       Enum("_NC_KEY_PRINT", Macro("KEY_PRINT")),
       Enum("_NC_KEY_LL", Macro("KEY_LL")),
       Enum("_NC_KEY_A1", Macro("KEY_A1")),
       Enum("_NC_KEY_A3", Macro("KEY_A3")),
       Enum("_NC_KEY_B2", Macro("KEY_B2")),
       Enum("_NC_KEY_C1", Macro("KEY_C1")),
       Enum("_NC_KEY_C3", Macro("KEY_C3")),
       Enum("_NC_KEY_BTAB", Macro("KEY_BTAB")),
       Enum("_NC_KEY_BEG", Macro("KEY_BEG")),
       Enum("_NC_KEY_CANCEL", Macro("KEY_CANCEL")),
       Enum("_NC_KEY_CLOSE", Macro("KEY_CLOSE")),
       Enum("_NC_KEY_COMMAND", Macro("KEY_COMMAND")),
       Enum("_NC_KEY_COPY", Macro("KEY_COPY")),
       Enum("_NC_KEY_CREATE", Macro("KEY_CREATE")),
       Enum("_NC_KEY_END", Macro("KEY_END")),
       Enum("_NC_KEY_EXIT", Macro("KEY_EXIT")),
       Enum("_NC_KEY_FIND", Macro("KEY_FIND")),
       Enum("_NC_KEY_HELP", Macro("KEY_HELP")),
       Enum("_NC_KEY_MARK", Macro("KEY_MARK")),
       Enum("_NC_KEY_MESSAGE", Macro("KEY_MESSAGE")),
       Enum("_NC_KEY_MOVE", Macro("KEY_MOVE")),
       Enum("_NC_KEY_NEXT", Macro("KEY_NEXT")),
       Enum("_NC_KEY_OPEN", Macro("KEY_OPEN")),
       Enum("_NC_KEY_OPTIONS", Macro("KEY_OPTIONS")),
       Enum("_NC_KEY_PREVIOUS", Macro("KEY_PREVIOUS")),
       Enum("_NC_KEY_REDO", Macro("KEY_REDO")),
       Enum("_NC_KEY_REFERENCE", Macro("KEY_REFERENCE")),
       Enum("_NC_KEY_REFRESH", Macro("KEY_REFRESH")),
       Enum("_NC_KEY_REPLACE", Macro("KEY_REPLACE")),
       Enum("_NC_KEY_RESTART", Macro("KEY_RESTART")),
       Enum("_NC_KEY_RESUME", Macro("KEY_RESUME")),
       Enum("_NC_KEY_SAVE", Macro("KEY_SAVE")),
       Enum("_NC_KEY_SUSPEND", Macro("KEY_SUSPEND")),
       Enum("_NC_KEY_UNDO", Macro("KEY_UNDO")),
       Enum("_NC_KEY_MOUSE", Macro("KEY_MOUSE")) >>

\* Shifted keys (lines 106-134).
ShiftedKeys ==
    << Enum("_NC_KEY_SBEG", Macro("KEY_SBEG")),
       Enum("_NC_KEY_SCANCEL", Macro("KEY_SCANCEL")),
       Enum("_NC_KEY_SCOMMAND", Macro("KEY_SCOMMAND")),
       Enum("_NC_KEY_SCOPY", Macro("KEY_SCOPY")),
       Enum("_NC_KEY_SCREATE", Macro("KEY_SCREATE")),
       Enum("_NC_KEY_SDC", Macro("KEY_SDC")),
       Enum("_NC_KEY_SDL", Macro("KEY_SDL")),
       Enum("_NC_KEY_SELECT", Macro("KEY_SELECT")),
       Enum("_NC_KEY_SEND", Macro("KEY_SEND")),
       Enum("_NC_KEY_SEOL", Macro("KEY_SEOL")),
       Enum("_NC_KEY_SEXIT", Macro("KEY_SEXIT")),
       Enum("_NC_KEY_SFIND", Macro("KEY_SFIND")),
       Enum("_NC_KEY_SHELP", Macro("KEY_SHELP")),
       Enum("_NC_KEY_SHOME", Macro("KEY_SHOME")),
       Enum("_NC_KEY_SIC", Macro("KEY_SIC")),
       Enum("_NC_KEY_SLEFT", Macro("KEY_SLEFT")),
       Enum("_NC_KEY_SMESSAGE", Macro("KEY_SMESSAGE")),
       Enum("_NC_KEY_SMOVE", Macro("KEY_SMOVE")),
       Enum("_NC_KEY_SNEXT", Macro("KEY_SNEXT")),
       Enum("_NC_KEY_SOPTIONS", Macro("KEY_SOPTIONS")),
       Enum("_NC_KEY_SPREVIOUS", Macro("KEY_SPREVIOUS")),
       Enum("_NC_KEY_SPRINT", Macro("KEY_SPRINT")),
       Enum("_NC_KEY_SREDO", Macro("KEY_SREDO")),
       Enum("_NC_KEY_SREPLACE", Macro("KEY_SREPLACE")),
       Enum("_NC_KEY_SRIGHT", Macro("KEY_SRIGHT")),
       Enum("_NC_KEY_SRSUME", Macro("KEY_SRSUME")),
       Enum("_NC_KEY_SSAVE", Macro("KEY_SSAVE")),
       Enum("_NC_KEY_SSUSPEND", Macro("KEY_SSUSPEND")),
       Enum("_NC_KEY_SUNDO", Macro("KEY_SUNDO")) >>

\* Mutation: F11 is computed from the wrong index.
FunctionKeys_F11Repeated ==
    << Enum("_NC_KEY_F0", Call("KEY_F", 0)),
       Enum("_NC_KEY_F1", Call("KEY_F", 1)),
       Enum("_NC_KEY_F2", Call("KEY_F", 2)),
       Enum("_NC_KEY_F3", Call("KEY_F", 3)),
       Enum("_NC_KEY_F4", Call("KEY_F", 4)),
       Enum("_NC_KEY_F5", Call("KEY_F", 5)),
       Enum("_NC_KEY_F6", Call("KEY_F", 6)),
       Enum("_NC_KEY_F7", Call("KEY_F", 7)),
       Enum("_NC_KEY_F8", Call("KEY_F", 8)),
       Enum("_NC_KEY_F9", Call("KEY_F", 9)),
       Enum("_NC_KEY_F10", Call("KEY_F", 10)),
       Enum("_NC_KEY_F11", Call("KEY_F", 10)),
       Enum("_NC_KEY_F12", Call("KEY_F", 12)) >>

\* Function keys, KEY_F(n) (lines 137-149).
FunctionKeys ==
    << Enum("_NC_KEY_F0", Call("KEY_F", 0)),
       Enum("_NC_KEY_F1", Call("KEY_F", 1)),
       Enum("_NC_KEY_F2", Call("KEY_F", 2)),
       Enum("_NC_KEY_F3", Call("KEY_F", 3)),
       Enum("_NC_KEY_F4", Call("KEY_F", 4)),
       Enum("_NC_KEY_F5", Call("KEY_F", 5)),
       Enum("_NC_KEY_F6", Call("KEY_F", 6)),
       Enum("_NC_KEY_F7", Call("KEY_F", 7)),
       Enum("_NC_KEY_F8", Call("KEY_F", 8)),
       Enum("_NC_KEY_F9", Call("KEY_F", 9)),
       Enum("_NC_KEY_F10", Call("KEY_F", 10)),
       Enum("_NC_KEY_F11", Call("KEY_F", 11)),
       Enum("_NC_KEY_F12", Call("KEY_F", 12)) >>

\* Mutation: the shim defines an accessor for the default window.
ShimFunctions_WithAccessor ==
    {[name |-> "default_window", params |-> 0, returns |-> "stdscr"]}

\* The shim defines no function: its text ends with the enum (line 150).
ShimFunctions == {}

\* The whole enum of lines 19-150, in declaration order.
Enumerators ==
    Attributes \o ReturnCodes \o Configuration \o NavigationKeys
        \o ShiftedKeys \o FunctionKeys

\* The function keys F0..F12 are exported (lines 137-149).
MaxFunctionKey == 12

\* The prefix of every exported name (line 18).
Prefix == "_NC_"

(* ------------------------------ state ---------------------------------- *)

VARIABLES
    hdrs,        \* the installation: header path -> Absent or Header(variant)
    predef,      \* the macros predefined when the pass starts
    pc,          \* "preprocess", "enum", "done" or "failed"
    pos,         \* the next directive or enumerator
    macros,      \* the configuration macros' current definitions
    included,    \* the header path the #include resolved to, or "none"
    atInclude,   \* the configuration macros as the library header saw them
    log,         \* the directives processed so far, in order
    symbols,     \* the enumerators declared so far: name, initialiser, value
    output,      \* the exported constants: (name, value) pairs
    functions,   \* the exported functions defined by the shim
    runs,        \* passes completed before this one
    lastResult   \* the outcome of the previous pass

vars == << hdrs, predef, pc, pos, macros, included, atInclude, log, symbols,
           output, functions, runs, lastResult >>

\* What the compiler or the command line may predefine.
PredefinedEnvironments ==
    { [m \in ConfigMacros |->
          CASE m = "__NO_INLINE__" -> a
            [] m = "_FORTIFY_SOURCE" -> b
            [] OTHER -> c] :
        a \in {Undefined, Defined(1)},
        b \in {Undefined} \cup {Defined(k) : k \in 0..MaxFortify},
        c \in {Undefined, Defined(1)} }

Installations == [HeaderPaths -> {Absent} \cup {Header(v) : v \in 0..MaxVariant}]

NoResult == [status |-> "none", output |-> << >>, functions |-> {}]

\* The state in which a pass starts.
StartPass(env) ==
    /\ pc = "preprocess"
    /\ pos = 1
    /\ macros = env
    /\ included = "none"
    /\ atInclude = env
    /\ log = << >>
    /\ symbols = << >>
    /\ output = << >>
    /\ functions = {}

Init ==
    /\ hdrs \in Installations
    /\ predef \in PredefinedEnvironments
    /\ StartPass(predef)
    /\ runs = 0
    /\ lastResult = NoResult

(* -------------------------- the preprocessor --------------------------- *)

\* After the directive at pos: the next directive, or on to the enum.
AfterDirective ==
    IF pos < Len(ShimDirectives)
    THEN pc' = "preprocess" /\ pos' = pos + 1
    ELSE pc' = "enum" /\ pos' = 1

\* #define MACRO value (lines 10, 13, 14): the macro has that value from
\* here on.  In every environment of PredefinedEnvironments a macro that is
\* already defined here is defined to the same value again, which the
\* preprocessor accepts without a diagnostic.
Define ==
    /\ pc = "preprocess"
    /\ ShimDirectives[pos].op = "define"
    /\ macros' = [macros EXCEPT ![ShimDirectives[pos].macro] =
                         Defined(ShimDirectives[pos].value)]
    /\ log' = Append(log, ShimDirectives[pos])
    /\ AfterDirective
    /\ UNCHANGED << hdrs, predef, included, atInclude, symbols, output,
                    functions, runs, lastResult >>

\* #undef MACRO (line 12).
Undef ==
    /\ pc = "preprocess"
    /\ ShimDirectives[pos].op = "undef"
    /\ macros' = [macros EXCEPT ![ShimDirectives[pos].macro] = Undefined]
    /\ log' = Append(log, ShimDirectives[pos])
    /\ AfterDirective
    /\ UNCHANGED << hdrs, predef, included, atInclude, symbols, output,
                    functions, runs, lastResult >>

\* Mutation: a header that is not found is passed over.
Resolve_Stub(h) == h

\* Mutation: the wide-character variant is taken when it is there.
Resolve_PreferWide(h) ==
    IF hdrs[WideHeader].present THEN WideHeader
    ELSE IF h \in HeaderPaths /\ hdrs[h].present THEN h ELSE "none"

\* The header path #include <h> resolves to in the include search path.
Resolve(h) == IF h \in HeaderPaths /\ hdrs[h].present THEN h ELSE "none"

\* #include <ncurses.h> (line 15): the header is read with the macros as
\* they are now; a header that is not found ends the pass.
Include ==
    /\ pc = "preprocess"
    /\ ShimDirectives[pos].op = "include"
    /\ log' = Append(log, ShimDirectives[pos])
    /\ IF Resolve(ShimDirectives[pos].header) = "none"
       THEN /\ pc' = "failed"
            /\ UNCHANGED << pos, included, atInclude >>
       ELSE /\ included' = Resolve(ShimDirectives[pos].header)
            /\ atInclude' = macros
            /\ AfterDirective
    /\ UNCHANGED << hdrs, predef, macros, symbols, output, functions, runs,
                    lastResult >>

(* ----------------------------- the enum -------------------------------- *)

\* Whether the included header makes the initialiser's macro known.
InitKnown(i) ==
    /\ included # "none"
    /\ CASE i.kind = "macro" -> i.macro \in LibraryMacroSet
         [] i.kind = "call" -> i.macro = "KEY_F"
         [] OTHER -> TRUE

\* Mutation: the value drifts from one pass to the next.
InitValue_RunDependent(i) ==
    CASE i.kind = "macro" -> LibValue(hdrs[included].variant, i.macro) + runs
      [] i.kind = "call" -> LibKeyF(hdrs[included].variant, i.arg)
      [] OTHER -> i.value

\* The integer the initialiser evaluates to against the included header.
InitValue(i) ==
    CASE i.kind = "macro" -> LibValue(hdrs[included].variant, i.macro)
      [] i.kind = "call" -> LibKeyF(hdrs[included].variant, i.arg)
      [] OTHER -> i.value

Declared(n) == \E k \in 1..Len(symbols) : symbols[k].name = n

\* One enumerator NAME = INITIALISER (lines 21-149): an unknown identifier
\* or a name declared before ends the pass.
DeclareEnumerator ==
    /\ pc = "enum"
    /\ pos <= Len(Enumerators)
    /\ IF InitKnown(Enumerators[pos].init) /\ ~Declared(Enumerators[pos].name)
       THEN /\ symbols' = Append(symbols,
                   [name |-> Enumerators[pos].name,
                    init |-> Enumerators[pos].init,
                    value |-> InitValue(Enumerators[pos].init)])
            /\ pos' = pos + 1
            /\ pc' = pc
       ELSE /\ pc' = "failed"
            /\ UNCHANGED << pos, symbols >>
    /\ UNCHANGED << hdrs, predef, macros, included, atInclude, log, output,
                    functions, runs, lastResult >>

\* The closing brace (line 150): the declarations become the pass's output.
Finish ==
    /\ pc = "enum"
    /\ pos > Len(Enumerators)
    /\ pc' = "done"
    /\ output' = [k \in 1..Len(symbols) |->
                     [name |-> symbols[k].name, value |-> symbols[k].value]]
    /\ functions' = ShimFunctions
    /\ UNCHANGED << hdrs, predef, pos, macros, included, atInclude, log,
                    symbols, runs, lastResult >>

\* The build runs the pass again on the same installation.
Rerun ==
    /\ pc \in {"done", "failed"}
    /\ runs + 1 < MaxRuns
    /\ runs' = runs + 1
    /\ lastResult' = [status |-> pc, output |-> output, functions |-> functions]
    /\ pc' = "preprocess"
    /\ pos' = 1
    /\ macros' = predef
    /\ included' = "none"
    /\ atInclude' = predef
    /\ log' = << >>
    /\ symbols' = << >>
    /\ output' = << >>
    /\ functions' = {}
    /\ UNCHANGED << hdrs, predef >>

Next == Define \/ Undef \/ Include \/ DeclareEnumerator \/ Finish \/ Rerun

Spec == Init /\ [][Next]_vars

(* ------------------------------ claims --------------------------------- *)

IncludeProcessed == \E k \in 1..Len(log) : log[k].op = "include"

WidePresent == hdrs[WideHeader].present

PlainPresent == hdrs[PlainHeader].present

\* The text of the library macro use an initialiser stands for, without
\* punctuation: KEY_F(5) reads KEY_F5.
MacroText(i) == IF i.kind = "call" THEN i.macro \o ToString(i.arg) ELSE i.macro

\* The exported constant e carries the value that a header of variant v
\* gives the library macro e is named after.
MatchesLibrary(v, e) ==
    \/ \E m \in LibraryMacroSet :
          e.name = Prefix \o m /\ e.value = LibValue(v, m)
    \/ \E n \in 0..MaxFunctionKey :
          e.name = Prefix \o "KEY_F" \o ToString(n) /\ e.value = LibKeyF(v, n)

\* The exported constant called n has value x, and no other value.
Exports(n, x) ==
    /\ \E k \in 1..Len(output) : output[k].name = n /\ output[k].value = x
    /\ \A k \in 1..Len(output) : output[k].name = n => output[k].value = x

\* C1: every exported constant has the value the included library header
\* gives the macro it is named after, whatever values that header gives,
\* and no enumerator is initialised with a literal of the shim's own.
C1_ExportsEqualLibraryValues ==
    /\ \A k \in 1..Len(output) :
          MatchesLibrary(hdrs[included].variant, output[k])
    /\ \A k \in 1..Len(symbols) : symbols[k].init.kind # "literal"

C1_Witness ==
    /\ pc = "done"
    /\ Len(output) = Len(Enumerators)
    /\ hdrs[included].variant = MaxVariant

C3_NoHeaderNoExports ==
    (~WidePresent /\ ~PlainPresent) =>
       /\ pc \in {"preprocess", "failed"}
       /\ IncludeProcessed => pc = "failed"
       /\ symbols = << >>
       /\ output = << >>
       /\ functions = {}

C3_Witness ==
    /\ ~WidePresent
    /\ ~PlainPresent
    /\ pc = "failed"
    /\ runs > 0
    /\ lastResult.status = "failed"

\* C4: in the order the directives are processed, no configuration macro is
\* defined at or after the include, and when the include is processed each
\* of the three has been defined by the shim.
C4_DefinesBeforeInclude ==
    /\ \A j \in 1..Len(log) :
          (log[j].op = "define" /\ log[j].macro \in ConfigMacros) =>
             \A i \in 1..j : log[i].op # "include"
    /\ IncludeProcessed =>
          \A m \in ConfigMacros :
             \E j \in 1..Len(log) : log[j].op = "define" /\ log[j].macro = m

C4_Witness ==
    /\ pc = "done"
    /\ IncludeProcessed
    /\ Len(log) = Len(ShimDirectives)

C6_FunctionKeys ==
    pc = "done" =>
       /\ \A n \in 0..MaxFunctionKey :
             Exports(Prefix \o "KEY_F" \o ToString(n),
                     LibValue(hdrs[included].variant, "KEY_F0") + n)
       /\ \A j, k \in 1..Len(symbols) :
             (symbols[j].init.kind = "call" /\ symbols[k].init.kind = "call"
                  /\ k = j + 1) =>
                symbols[k].value = symbols[j].value + 1
       /\ Cardinality({k \in 1..Len(symbols) : symbols[k].init.kind = "call"})
             = MaxFunctionKey + 1

C6_Witness ==
    /\ pc = "done"
    /\ Exports("_NC_KEY_F12", LibValue(hdrs[included].variant, "KEY_F0") + 12)
    /\ Exports("_NC_KEY_F0", LibValue(hdrs[included].variant, "KEY_F0"))

\* A header with the library's documented status codes.
Standard(v) == LibValue(v, "OK") = 0 /\ LibValue(v, "ERR") = -1

\* C7: against a standard installation the exported success code is 0 and
\* the exported error code is -1.
C7_StatusCodes ==
    (pc = "done" /\ Standard(hdrs[included].variant)) =>
       /\ Exports("_NC_OK", 0)
       /\ Exports("_NC_ERR", -1)
       /\ \A j, k \in 1..Len(output) :
             (output[j].name = "_NC_OK" /\ output[k].name = "_NC_ERR") =>
                output[j].value # output[k].value

C7_Witness ==
    /\ pc = "done"
    /\ Standard(hdrs[included].variant)
    /\ Exports("_NC_OK", 0)
    /\ Exports("_NC_ERR", -1)

\* C8: each declared name is the prefix followed by the library macro it is
\* initialised from, no name or macro occurs twice, and no declared name is
\* a name of the library's own.
C8_OneToOneNames ==
    /\ \A k \in 1..Len(symbols) :
          /\ symbols[k].init.kind \in {"macro", "call"}
          /\ symbols[k].name = Prefix \o MacroText(symbols[k].init)
          /\ symbols[k].name \notin LibraryMacroSet \cup {"KEY_F"}
    /\ \A j, k \in 1..Len(symbols) :
          j # k => /\ symbols[j].name # symbols[k].name
                   /\ symbols[j].init # symbols[k].init

C8_Witness ==
    /\ pc = "done"
    /\ Len(symbols) = Len(Enumerators)
    /\ Len(output) = Len(symbols)

\* The outcome of the pass that has just ended.
Result == [status |-> pc, output |-> output, functions |-> functions]

C10_MacrosAtInclude ==
    included # "none" =>
       /\ atInclude["_FORTIFY_SOURCE"] = Defined(0)
       /\ atInclude["__NO_INLINE__"].defined
       /\ atInclude["_XOPEN_SOURCE_EXTENDED"] = Defined(1)

C10_Witness ==
    /\ included # "none"
    /\ predef["_FORTIFY_SOURCE"].defined
    /\ predef["_FORTIFY_SOURCE"].value > 0
    /\ ~predef["__NO_INLINE__"].defined
    /\ atInclude["_FORTIFY_SOURCE"] = Defined(0)

====
